---- MODULE Spec2Model ----
(***************************************************************************)
(* Model of the FIRMS active-fires pipeline of                             *)
(* src/services/firms_nominatim_service.py and of its caller in            *)
(* src/stapi_activefires.py:                                               *)
(*   - create_firms_csv_urls      (Feed URL Builder)                       *)
(*   - fetch_firms_csv_content / read_firm_csv (Raw Content Fetcher)       *)
(*   - process_csv_data           (Record Normalizer)                      *)
(*   - convert_firms_urls_to_combined_gdf under functools.lru_cache        *)
(*                                (Feed Combiner, memoized)                *)
(*   - grabbing_firms_world_data  (the caller's error handling)            *)
(*   - filter_firms_points_within_country_area (Geospatial Filter)         *)
(*                                                                         *)
(* Strings whose characters matter (the credential, acq_time) are          *)
(* sequences of one-character strings; a pandas DataFrame is a sequence of *)
(* row records plus the dtype of its confidence column.                    *)
(***************************************************************************)
EXTENDS Integers, Sequences, FiniteSets, TLC

VARIABLES
    firms_key,      \* argument of create_firms_csv_urls
    url_result,     \* its outcome: "pending", the URL triple, or the error
    csv_content,    \* argument of process_csv_data: the parsed CSV table
    today,          \* date.today() at the time process_csv_data runs
    pandas_2x,      \* whether the installed pandas is 2.x (else 1.x)
    df_result,      \* outcome of process_csv_data
    remote,         \* product index -> CSV table the FIRMS server holds
    cache,          \* lru_cache of the combiner, least recently used first
    pc,             \* caller -> where its combiner call stands
    stats,          \* watched key -> calls made, requests sent per URL, and
                    \*   whether two calls ever ran its body at the same time
    done,           \* the results returned so far for the watched keys
    since,          \* watched key -> other keys stored or hit since it was
    nextKey,        \* number of distinct keys that got a result so far
    firms_world_gdf, \* first argument of the geospatial filter: the points
    country_gdf,    \* its second argument: the boundary polygons
    filtered_gdf    \* outcome of filter_firms_points_within_country_area

vars == <<firms_key, url_result, csv_content, today, pandas_2x, df_result, remote,
          cache, pc, stats, done, since, nextKey,
          firms_world_gdf, country_gdf, filtered_gdf>>

urlVars == <<firms_key, url_result>>
normVars == <<csv_content, df_result>>
envVars == <<today, pandas_2x, remote>>
combVars == <<cache, pc, stats, done, since, nextKey>>
geoVars == <<firms_world_gdf, country_gdf, filtered_gdf>>

(***************************************************************************)
(* Helpers on sequences.                                                   *)
(***************************************************************************)
Range(s) == {s[i] : i \in DOMAIN s}

Repeat(c, n) == [i \in 1..n |-> c]

Max(a, b) == IF a >= b THEN a ELSE b

(***************************************************************************)
(* Feed URL Builder: create_firms_csv_urls.                                *)
(***************************************************************************)
FIRMS_API_URL == "https://firms.modaps.eosdis.nasa.gov"

\* the literal "0123456789abcdef" of the membership test
HexDigits == {"0", "1", "2", "3", "4", "5", "6", "7", "8", "9",
              "a", "b", "c", "d", "e", "f"}

\* the length the key is compared with
KeyLen == 32

\* str.lower() on one character
LowerChar(c) ==
    CASE c = "A" -> "a" [] c = "B" -> "b" [] c = "C" -> "c"
      [] c = "D" -> "d" [] c = "E" -> "e" [] c = "F" -> "f"
      [] c = "G" -> "g" [] OTHER -> c

Lower(s) == [i \in DOMAIN s |-> LowerChar(s[i])]

\* a raised exception; cause is the exception it was raised from
Raised(type, cause) == [ok |-> FALSE, type |-> type, status |-> 0, cause |-> cause]

\* a returned value
Returned(value) == [ok |-> TRUE, value |-> value]

NoCause == [ok |-> FALSE, type |-> "None"]

\* the three f-strings: literal pieces are atoms, the key is spliced in
FirmsUrl(key, product) ==
    <<FIRMS_API_URL, "/api/area/csv/">> \o key \o <<"/", product, "/world/9">>

Products == <<"MODIS_NRT", "VIIRS_NOAA20_NRT", "VIIRS_SNPP_NRT">>

\* mutant: the length test is dropped
create_firms_csv_urls_nolen(key) ==
    IF key = <<>>
    THEN Raised("ValueError", NoCause)
    ELSE IF ~(\A i \in DOMAIN key : Lower(key)[i] \in HexDigits)
    THEN Raised("ValueError", NoCause)
    ELSE Returned([i \in 1..3 |-> FirmsUrl(key, Products[i])])

\* mutant: the character test is dropped
create_firms_csv_urls_nohex(key) ==
    IF key = <<>>
    THEN Raised("ValueError", NoCause)
    ELSE IF Len(key) # KeyLen
    THEN Raised("ValueError", NoCause)
    ELSE Returned([i \in 1..3 |-> FirmsUrl(key, Products[i])])

create_firms_csv_urls(key) ==
    IF key = <<>>
    THEN Raised("ValueError", NoCause)
    ELSE IF ~(\A i \in DOMAIN key : Lower(key)[i] \in HexDigits) \/ Len(key) # KeyLen
    THEN Raised("ValueError", NoCause)
    ELSE Returned([i \in 1..3 |-> FirmsUrl(key, Products[i])])

\* Inputs of the builder: a run of "a" of every length up to KeyLen + MaxExtra
\* with at most one position replaced by another character.
MaxExtra == 1

KeyChars == {"a", "0", "9", "F", "g", "G", "-"}

Credentials ==
    {<<>>} \cup
    { [i \in 1..n |-> IF i = p THEN c ELSE "a"] :
        n \in 1..(KeyLen + MaxExtra), p \in 1..(KeyLen + MaxExtra), c \in KeyChars }

(***************************************************************************)
(* Record Normalizer: process_csv_data.                                    *)
(*                                                                         *)
(* A table is what pd.read_csv hands over: the set of its column names and *)
(* its rows.  acq_date is read as str: the ISO date string of day d is     *)
(* Str(d), and strings of that shape compare as their days do.  acq_time   *)
(* is read as str: a sequence of characters.  A confidence cell is an      *)
(* integer, a word, or NaN (an empty cell).                                *)
(***************************************************************************)
IntCell(n) == [k |-> "int", v |-> n]
StrCell(w) == [k |-> "str", v |-> w]
NaN == [k |-> "nan", v |-> "nan"]
NaT == [nat |-> TRUE]

\* Python values of different types never compare equal: the type is part
\* of the value (str.__eq__ and Timestamp.__eq__ both answer NotImplemented
\* for the other type, and == then falls back to identity).
Str(d) == [py |-> "str", v |-> d]
Timestamp(d) == [py |-> "Timestamp", v |-> d]

Digits == {"0", "1", "2", "3", "4", "5", "6", "7", "8", "9"}

DigitVal(c) ==
    CASE c = "0" -> 0 [] c = "1" -> 1 [] c = "2" -> 2 [] c = "3" -> 3
      [] c = "4" -> 4 [] c = "5" -> 5 [] c = "6" -> 6 [] c = "7" -> 7
      [] c = "8" -> 8 [] c = "9" -> 9

\* dtype pd.read_csv infers for the confidence column (object when the
\* table has no row)
ConfDtype(rows) ==
    IF rows = <<>> THEN "object"
    ELSE IF \A i \in DOMAIN rows : rows[i].confidence.k = "int" THEN "int64"
    ELSE IF \A i \in DOMAIN rows : rows[i].confidence.k \in {"int", "nan"} THEN "float64"
    ELSE "object"

\* pd.api.types.is_numeric_dtype(data["confidence"])
is_numeric_dtype(rows) == ConfDtype(rows) \in {"int64", "float64"}

\* pd.api.types.is_string_dtype(data["confidence"]): pandas 1.x answers True
\* for every object column, pandas 2.x only when every cell is a str (in an
\* object column read_csv leaves a number as the str of its digits, and an
\* empty cell as NaN).
is_string_dtype(rows, pandas2) ==
    /\ ConfDtype(rows) = "object"
    /\ pandas2 => (rows # <<>> /\ \A i \in DOMAIN rows : rows[i].confidence.k # "nan")

\* data["confidence"] >= 70 on one cell (NaN compares False)
GeThreshold(c) == c.k = "int" /\ c.v >= 70

\* data["confidence"].isin(["nominal", "high"]) on one cell
IsNominalOrHigh(c) == c.k = "str" /\ c.v \in {"nominal", "high"}

\* mutant: the threshold comparison is strict
HighConfidence_strict(rows, pandas2, i) ==
    IF is_numeric_dtype(rows)
    THEN rows[i].confidence.k = "int" /\ rows[i].confidence.v > 70
    ELSE IF is_string_dtype(rows, pandas2) THEN IsNominalOrHigh(rows[i].confidence)
    ELSE FALSE

\* lines 96-122: the high_confidence column, initialised False and set by
\* whichever branch the dtype selects
HighConfidence(rows, pandas2, i) ==
    IF is_numeric_dtype(rows) THEN GeThreshold(rows[i].confidence)
    ELSE IF is_string_dtype(rows, pandas2) THEN IsNominalOrHigh(rows[i].confidence)
    ELSE FALSE

\* str.pad(width=4, side="left", fillchar="0"), and str.zfill(4) after it
Pad4(s) == IF Len(s) >= 4 THEN s ELSE Repeat("0", 4 - Len(s)) \o s

IsDigitAt(s, p) == p <= Len(s) /\ s[p] \in Digits

\* The strptime directives as the regular expressions they compile to; each
\* gives the lengths its alternatives can match at position p, in the order
\* the regex engine tries them.
\*   %H  (2[0-3]|[0-1]\d|\d)      %M  ([0-5]\d|\d)      %S  (6[0-1]|[0-5]\d|\d)
AltH(s, p) ==
    (IF IsDigitAt(s, p) /\ IsDigitAt(s, p + 1)
        /\ \/ (s[p] = "2" /\ DigitVal(s[p + 1]) <= 3)
           \/ s[p] \in {"0", "1"}
     THEN <<2>> ELSE <<>>)
    \o (IF IsDigitAt(s, p) THEN <<1>> ELSE <<>>)

AltM(s, p) ==
    (IF IsDigitAt(s, p) /\ IsDigitAt(s, p + 1) /\ DigitVal(s[p]) <= 5
     THEN <<2>> ELSE <<>>)
    \o (IF IsDigitAt(s, p) THEN <<1>> ELSE <<>>)

AltS(s, p) ==
    (IF IsDigitAt(s, p) /\ IsDigitAt(s, p + 1)
        /\ \/ (s[p] = "6" /\ DigitVal(s[p + 1]) <= 1)
           \/ DigitVal(s[p]) <= 5
     THEN <<2>> ELSE <<>>)
    \o (IF IsDigitAt(s, p) THEN <<1>> ELSE <<>>)

\* value of the digits s[p .. p+n-1]
NumAt(s, p, n) == IF n = 2 THEN 10 * DigitVal(s[p]) + DigitVal(s[p + 1]) ELSE DigitVal(s[p])

\* All ways "%H%M%S" matches a prefix of s, as <<h, m, sec>> lengths, and the
\* one the backtracking engine finds first: the earliest alternative of %H
\* that lets the rest match, then of %M, then of %S.
Matches(s) ==
    { <<a, b, c>> \in (1..2) \X (1..2) \X (1..2) :
        /\ a \in Range(AltH(s, 1))
        /\ b \in Range(AltM(s, 1 + a))
        /\ c \in Range(AltS(s, 1 + a + b)) }

Earlier(x, y) ==
    \/ x[1] > y[1]
    \/ x[1] = y[1] /\ x[2] > y[2]
    \/ x[1] = y[1] /\ x[2] = y[2] /\ x[3] >= y[3]

FirstMatch(s) == CHOOSE x \in Matches(s) : \A y \in Matches(s) : Earlier(x, y)

\* pd.to_datetime(..., format="%Y-%m-%d %H%M%S", errors="coerce") on the time
\* part of one cell: no match, or text left over after the match, gives NaT.
ParseTime(s) ==
    IF Matches(s) = {} THEN NaT
    ELSE LET x == FirstMatch(s)
         IN  IF x[1] + x[2] + x[3] # Len(s) THEN NaT
             ELSE [hour   |-> NumAt(s, 1, x[1]),
                   minute |-> NumAt(s, 1 + x[1], x[2]),
                   second |-> NumAt(s, 1 + x[1] + x[2], x[3])]

\* lines 125-130 on one row: the acq_datetime cell
AcqDatetime(row) ==
    LET t == ParseTime(Pad4(Pad4(row.acq_time)))
    IN  IF t = NaT THEN NaT
        ELSE [date |-> row.acq_date.v, hour |-> t.hour, minute |-> t.minute,
              second |-> t.second]

\* data["acq_date"].max(): the greatest string of the column
MaxAcqDate(rows) ==
    CHOOSE d \in {rows[i].acq_date : i \in DOMAIN rows} :
        \A i \in DOMAIN rows : rows[i].acq_date.v <= d.v

\* data["acq_date"].rank(method="dense", ascending=False).astype(int)
DenseRankDesc(rows, i) ==
    1 + Cardinality({rows[j].acq_date.v : j \in DOMAIN rows}
                    \cap {d \in Int : d > rows[i].acq_date.v})

\* astype(str) on a confidence cell: a float64 column prints 85 as "85.0"
ConfStr(c, dtype) ==
    CASE c.k = "nan" -> "nan"
      [] c.k = "int" /\ dtype = "float64" -> ToString(c.v) \o ".0"
      [] c.k = "int" -> ToString(c.v)
      [] OTHER -> c.v

RequiredCsvColumns == {"confidence", "acq_date", "acq_time", "satellite"}

\* the two data.rename calls: which branch ran decides the column names
RenamedColumns(table, pandas2) ==
    LET ren(cols, from, to) ==
            IF from \in cols THEN (cols \ {from}) \cup {to} ELSE cols
    IN  IF is_numeric_dtype(table.rows)
        THEN ren(ren(table.columns, "brightness", "brightness_a"),
                 "bright_t31", "brightness_b")
        ELSE IF is_string_dtype(table.rows, pandas2)
        THEN ren(ren(table.columns, "bright_ti4", "brightness_a"),
                 "bright_ti5", "brightness_b")
        ELSE table.columns

\* one row of the frame process_csv_data returns
NormalizedRow(table, tday, pandas2, i) ==
    LET rows == table.rows
        r == rows[i]
        rank == DenseRankDesc(rows, i)
    IN  [latitude        |-> r.latitude,
         longitude       |-> r.longitude,
         acq_date        |-> r.acq_date,
         acq_time        |-> Pad4(r.acq_time),
         confidence      |-> ConfStr(r.confidence, ConfDtype(rows)),
         version         |-> r.version,
         satellite       |-> r.satellite,
         frp             |-> r.frp,
         high_confidence |-> HighConfidence(rows, pandas2, i),
         acq_datetime    |-> AcqDatetime(r),
         days_ago        |-> IF MaxAcqDate(rows) = Timestamp(tday)
                             THEN rank - 1
                             ELSE rank]

\* a DataFrame: its columns and its rows
Frame(columns, rows) == [columns |-> columns, rows |-> rows]

\* mutant: rows that fail to parse are dropped and the rest returned
process_csv_data_skip(table, tday, pandas2) ==
    IF ~(RequiredCsvColumns \subseteq table.columns)
    THEN Raised("ValueError", Raised("ValueError", NoCause))
    ELSE LET all == [i \in DOMAIN table.rows |-> NormalizedRow(table, tday, pandas2, i)]
         IN  Returned(Frame(
                 RenamedColumns(table, pandas2)
                     \cup {"high_confidence", "acq_datetime", "days_ago"},
                 SelectSeq(all, LAMBDA r : r.acq_datetime # NaT)))

\* process_csv_data: every exception raised inside the try block leaves as
\* ValueError("Data processing error") raised from it
process_csv_data(table, tday, pandas2) ==
    IF ~(RequiredCsvColumns \subseteq table.columns)
    THEN Raised("ValueError", Raised("ValueError", NoCause))
    ELSE IF \E i \in DOMAIN table.rows : AcqDatetime(table.rows[i]) = NaT
    THEN Raised("ValueError", Raised("ValueError", NoCause))
    ELSE Returned(Frame(
             RenamedColumns(table, pandas2)
                 \cup {"high_confidence", "acq_datetime", "days_ago"},
             [i \in DOMAIN table.rows |-> NormalizedRow(table, tday, pandas2, i)]))

(***************************************************************************)
(* Feed Combiner: the body of convert_firms_urls_to_combined_gdf after the *)
(* three frames are read.                                                  *)
(***************************************************************************)
RequiredCombinedColumns ==
    {"high_confidence", "latitude", "longitude", "acq_datetime", "confidence", "version"}

DropColumns ==
    {"scan", "track", "acq_date", "acq_time", "brightness_a", "brightness_b", "daynight"}

\* the subset of drop_duplicates
UniqueKey(r) == <<r.latitude, r.longitude, r.acq_datetime, r.confidence, r.version>>

\* mutant: keep="first"
DropDuplicates_first(rows) ==
    LET keep == { i \in DOMAIN rows :
                    ~\E j \in DOMAIN rows : j < i /\ UniqueKey(rows[j]) = UniqueKey(rows[i]) }
        F[n \in 0..Len(rows)] ==
            IF n = 0 THEN <<>>
            ELSE IF n \in keep THEN Append(F[n - 1], rows[n]) ELSE F[n - 1]
    IN  F[Len(rows)]

\* drop_duplicates(subset=unique_columns, keep="last")
DropDuplicates(rows) ==
    LET keep == { i \in DOMAIN rows :
                    ~\E j \in DOMAIN rows : j > i /\ UniqueKey(rows[j]) = UniqueKey(rows[i]) }
        F[n \in 0..Len(rows)] ==
            IF n = 0 THEN <<>>
            ELSE IF n \in keep THEN Append(F[n - 1], rows[n]) ELSE F[n - 1]
    IN  F[Len(rows)]

\* position of a datetime on the time line
Instant(dt) == ((dt.date * 24 + dt.hour) * 60 + dt.minute) * 60 + dt.second

\* sort_values(["acq_datetime"]): numpy sorts a column of up to 16 values by
\* insertion, which keeps equal values in their order
SortByDatetime(rows) ==
    LET pos(i) == Cardinality({ j \in DOMAIN rows :
                     \/ Instant(rows[j].acq_datetime) < Instant(rows[i].acq_datetime)
                     \/ /\ Instant(rows[j].acq_datetime) = Instant(rows[i].acq_datetime)
                        /\ j <= i })
    IN  [n \in DOMAIN rows |-> rows[CHOOSE i \in DOMAIN rows : pos(i) = n]]

\* dt.strftime("%Y-%m-%d_%H:%M:%S")
Strftime(dt) == <<dt.date, "_", dt.hour, ":", dt.minute, ":", dt.second>>

\* one record of the GeoDataFrame: transient columns dropped, point geometry
\* from (longitude, latitude), the datetime rendered
GeoRecord(r) ==
    [latitude        |-> r.latitude,
     longitude       |-> r.longitude,
     confidence      |-> r.confidence,
     version         |-> r.version,
     satellite       |-> r.satellite,
     frp             |-> r.frp,
     high_confidence |-> r.high_confidence,
     acq_datetime    |-> Strftime(r.acq_datetime),
     days_ago        |-> r.days_ago,
     geometry        |-> [x |-> r.longitude, y |-> r.latitude, crs |-> "EPSG:4326"]]

\* lines 174-204 on the frames read from the three URLs
CombinedGdf(dfs) ==
    LET columns == UNION {dfs[i].columns : i \in DOMAIN dfs}
        combined == dfs[1].rows \o dfs[2].rows \o dfs[3].rows
    IN  IF ~(RequiredCombinedColumns \subseteq columns)
        THEN Raised("ValueError", NoCause)
        ELSE IF ~(DropColumns \subseteq columns)
        THEN Raised("KeyError", NoCause)
        ELSE LET high == SelectSeq(combined, LAMBDA r : r.high_confidence)
                 export == SortByDatetime(DropDuplicates(high))
             IN  Returned([i \in DOMAIN export |-> GeoRecord(export[i])])

(***************************************************************************)
(* Raw Content Fetcher and the exceptions that leave it.                   *)
(***************************************************************************)
\* requests.HTTPError raised by raise_for_status() for a status code
HTTPError(status) ==
    [ok |-> FALSE, type |-> "HTTPError", status |-> status, cause |-> NoCause]

\* what can go wrong in fetch_firms_csv_content
TransportFailures ==
    {HTTPError(403), HTTPError(500),
     Raised("ConnectionError", NoCause), Raised("UnicodeDecodeError", NoCause)}

\* fetch_firms_csv_content: the except clause names HTTPError, ConnectionError
\* and OSError; a decode error is none of them and passes through
FetchRaises(e) ==
    IF e.type \in {"HTTPError", "ConnectionError", "OSError"}
    THEN Raised("ValueError", e)
    ELSE e

\* read_firm_csv: except Exception, raise ValueError from e
ReadRaises(e) == Raised("ValueError", e)

\* the innermost exception of a chain of causes
RECURSIVE RootCause(_)
RootCause(e) == IF e.cause = NoCause THEN e ELSE RootCause(e.cause)

(***************************************************************************)
(* grabbing_firms_world_data: the message the except clauses select for an *)
(* exception leaving the combiner.  A clause matches the class of the      *)
(* exception itself.                                                       *)
(***************************************************************************)
ErrorMessage(e) ==
    IF e.type = "HTTPError"
    THEN IF e.status = 403 THEN "rate_limit" ELSE "http_error"
    ELSE "generic"

(***************************************************************************)
(* functools.lru_cache() around the combiner: maxsize defaults to 128.     *)
(* cache is the list of entries, least recently used first.                *)
(***************************************************************************)
maxsize == 128

CacheKeys == {cache[i].key : i \in DOMAIN cache}

CacheIndex(k) == CHOOSE i \in DOMAIN cache : cache[i].key = k

Without(seq, n) == [i \in 1..(Len(seq) - 1) |-> IF i < n THEN seq[i] ELSE seq[i + 1]]

\* mutant: a hit leaves the entry where it is (first in, first out)
LruHit_norefresh(k) == cache

\* a hit moves the entry to the most recently used end
LruHit(k) == Append(Without(cache, CacheIndex(k)), cache[CacheIndex(k)])

\* mutant: the result is not stored
LruStore_nostore(k, value) == cache

\* after the wrapped function returned: an entry another caller stored in the
\* meantime is left as it is; a full cache gives up its oldest entry
LruStore(k, value) ==
    IF k \in CacheKeys THEN cache
    ELSE IF Len(cache) >= maxsize
    THEN Append(Tail(cache), [key |-> k, value |-> value])
    ELSE Append(cache, [key |-> k, value |-> value])

\* the key tuple a credential number stands for; a negative number stands for
\* a tuple that is not three URLs
UrlsOf(k) == [i \in 1..(IF k < 0 THEN 2 ELSE 3) |-> <<k, Products[i]>>]

Idle(k, out, ui, fetched) ==
    [at |-> "idle", key |-> k, i |-> 0, dfs |-> <<>>, out |-> out, ui |-> ui,
     fetched |-> fetched]

\* history: key k was stored or hit
Touched(k) == [j \in DOMAIN since |-> IF j = k THEN {} ELSE since[j] \cup {k}]

\* history: caller t calls with key k; the body is entered on a miss
CountCall(t, k) ==
    IF k \in DOMAIN stats
    THEN [stats EXCEPT
            ![k].calls = @ + 1,
            ![k].overlap = @ \/ /\ k \notin CacheKeys
                                /\ \E u \in DOMAIN pc \ {t} :
                                       pc[u].at # "idle" /\ pc[u].key = k]
    ELSE stats

\* history: a call with key k returned value
Returns(k, value) ==
    IF k \in DOMAIN since THEN done \cup {[key |-> k, value |-> value]} ELSE done

CountFetch(k, i) ==
    IF k \in DOMAIN stats
    THEN [stats EXCEPT ![k].fetches[i] = @ + 1]
    ELSE stats

(***************************************************************************)
(* The combiner call of caller t with key k, in the steps at which another *)
(* thread can run: the cache lookup, each read_firm_csv, the combination   *)
(* and the store.                                                          *)
(***************************************************************************)
\* the lru_cache wrapper is entered: a hit returns the stored result, a miss
\* enters the body, which first validates the tuple
Call(t, k) ==
    /\ pc[t].at = "idle"
    /\ stats' = CountCall(t, k)
    /\ IF k \in CacheKeys
       THEN /\ cache' = LruHit(k)
            /\ pc' = [pc EXCEPT ![t] =
                          Idle(k, Returned(cache[CacheIndex(k)].value), "none", 0)]
            /\ since' = Touched(k)
            /\ done' = Returns(k, cache[CacheIndex(k)].value)
       ELSE /\ IF Len(UrlsOf(k)) # 3
               THEN pc' = [pc EXCEPT ![t] =
                               Idle(k, Raised("ValueError", NoCause),
                                    ErrorMessage(Raised("ValueError", NoCause)), 0)]
               ELSE pc' = [pc EXCEPT ![t] =
                               [at |-> "read", key |-> k, i |-> 1, dfs |-> <<>>,
                                out |-> NoCause, ui |-> "none", fetched |-> 0]]
            /\ UNCHANGED <<cache, since, done>>
    /\ UNCHANGED <<nextKey, urlVars, normVars, envVars, geoVars>>

\* mutant: the loop skips a URL that failed and goes on with the next one
Raise_skip(t, exc) ==
    [pc EXCEPT ![t].fetched = @ + 1,
               ![t].i = @ + 1,
               ![t].at = IF pc[t].i = 3 THEN "combine" ELSE "read"]

\* an exception leaves read_firm_csv inside the loop: nothing catches it in
\* the combiner, so the call of caller t ends with it after the request to
\* the URL it was at
Raise(t, exc) ==
    [pc EXCEPT ![t] = Idle(pc[t].key, exc, ErrorMessage(exc), pc[t].fetched + 1)]

\* read_firm_csv(url) of the i-th URL: the request is answered and the
\* content goes through process_csv_data
ReadFirmCsv(t) ==
    /\ pc[t].at = "read"
    /\ stats' = CountFetch(pc[t].key, pc[t].i)
    /\ LET df == process_csv_data(remote[pc[t].i], today, pandas_2x)
       IN  IF df.ok
           THEN pc' = [pc EXCEPT ![t].dfs = Append(@, df.value),
                                 ![t].fetched = @ + 1,
                                 ![t].i = @ + 1,
                                 ![t].at = IF pc[t].i = 3 THEN "combine" ELSE "read"]
           ELSE pc' = Raise(t, ReadRaises(df))
    /\ UNCHANGED <<cache, since, done, nextKey, urlVars, normVars, envVars, geoVars>>

\* read_firm_csv(url) of the i-th URL: the request fails with e
ReadFirmCsvFails(t, e) ==
    /\ pc[t].at = "read"
    /\ stats' = CountFetch(pc[t].key, pc[t].i)
    /\ pc' = Raise(t, ReadRaises(FetchRaises(e)))
    /\ UNCHANGED <<cache, since, done, nextKey, urlVars, normVars, envVars, geoVars>>

\* the rest of the body, and the wrapper storing what it returned
Combine(t) ==
    /\ pc[t].at = "combine"
    /\ LET gdf == CombinedGdf(pc[t].dfs)
           k == pc[t].key
       IN  IF gdf.ok
           THEN /\ cache' = LruStore(k, gdf.value)
                /\ pc' = [pc EXCEPT ![t] = Idle(k, gdf, "none", pc[t].fetched)]
                /\ since' = IF k \in CacheKeys THEN since ELSE Touched(k)
                /\ done' = Returns(k, gdf.value)
                /\ nextKey' = Max(nextKey, k + 1)
           ELSE /\ pc' = [pc EXCEPT ![t] = Idle(k, gdf, ErrorMessage(gdf), pc[t].fetched)]
                /\ UNCHANGED <<cache, since, done, nextKey>>
    /\ UNCHANGED <<stats, urlVars, normVars, envVars, geoVars>>

(***************************************************************************)
(* Geospatial filter: filter_firms_points_within_country_area.             *)
(*                                                                         *)
(* A GeoDataFrame is its crs and its rows.  A row of the points frame has  *)
(* a point <<x, y>> as geometry and the attribute frp; a row of the        *)
(* boundary frame has a polygon as geometry, here an axis-parallel         *)
(* rectangle given by its bounds.  Both arguments are GeoDataFrames with a *)
(* geometry column, so the tests on the type and on the column pass.       *)
(***************************************************************************)
NoCrs == "None"

GeoDataFrame(crs, rows) == [crs |-> crs, rows |-> rows]

\* the change of coordinates between the two reference systems: one-to-one
\* and increasing in each coordinate
Transform(point, from, to) ==
    IF from = "EPSG:4326" /\ to = "EPSG:3857" THEN <<2 * point[1], 2 * point[2]>>
    ELSE IF from = "EPSG:3857" /\ to = "EPSG:4326"
    THEN <<point[1] \div 2, point[2] \div 2>>
    ELSE point

\* GeoDataFrame.to_crs: needs a target, and a frame that has a crs
to_crs(gdf, crs) ==
    IF crs = NoCrs \/ gdf.crs = NoCrs
    THEN Raised("ValueError", NoCause)
    ELSE Returned(GeoDataFrame(crs,
             [i \in DOMAIN gdf.rows |->
                 [gdf.rows[i] EXCEPT !.geometry = Transform(@, gdf.crs, crs)]]))

\* mutant: a point on the edge of the polygon counts (intersects)
Within_closed(point, polygon) ==
    /\ polygon.minx <= point[1] /\ point[1] <= polygon.maxx
    /\ polygon.miny <= point[2] /\ point[2] <= polygon.maxy

\* point.within(polygon): the point lies in the interior of the polygon
Within(point, polygon) ==
    /\ polygon.minx < point[1] /\ point[1] < polygon.maxx
    /\ polygon.miny < point[2] /\ point[2] < polygon.maxy

\* the boolean Series of the apply: any(...) over the polygons, per point
within_area(points, polygons) ==
    [i \in DOMAIN points |->
        \E j \in DOMAIN polygons : Within(points[i].geometry, polygons[j].geometry)]

\* frame[mask]: the rows whose mask entry is True, in the order of the frame
RECURSIVE BooleanIndex(_, _)
BooleanIndex(rows, mask) ==
    IF rows = <<>> THEN <<>>
    ELSE IF Head(mask)
    THEN <<Head(rows)>> \o BooleanIndex(Tail(rows), Tail(mask))
    ELSE BooleanIndex(Tail(rows), Tail(mask))

filter_firms_points_within_country_area(firms, country) ==
    IF firms.rows = <<>> \/ country.rows = <<>>
    THEN Raised("ValueError", NoCause)
    ELSE LET same == IF firms.crs # country.crs
                     THEN to_crs(firms, country.crs)
                     ELSE Returned(firms)
         IN  IF ~same.ok
             THEN Raised("ValueError", NoCause)
             ELSE Returned(GeoDataFrame(same.value.crs,
                      BooleanIndex(same.value.rows,
                                   within_area(same.value.rows, country.rows))))

(***************************************************************************)
(* Tables the FIRMS server can answer with.                                *)
(***************************************************************************)
ModisColumns ==
    {"latitude", "longitude", "brightness", "scan", "track", "acq_date", "acq_time",
     "satellite", "instrument", "confidence", "version", "bright_t31", "frp", "daynight"}

ViirsColumns ==
    {"latitude", "longitude", "bright_ti4", "scan", "track", "acq_date", "acq_time",
     "satellite", "instrument", "confidence", "version", "bright_ti5", "frp", "daynight"}

Row(date, time, conf, frp) ==
    [latitude |-> 10, longitude |-> 20, acq_date |-> Str(date), acq_time |-> time,
     confidence |-> conf, version |-> "6.1NRT", satellite |-> "Terra", frp |-> frp]

\* sequences over S of length at most n
RECURSIVE SeqsUpTo(_, _)
SeqsUpTo(S, n) ==
    IF n = 0 THEN {<<>>}
    ELSE LET shorter == SeqsUpTo(S, n - 1)
         IN  shorter \cup {Append(q, x) : q \in {r \in shorter : Len(r) = n - 1}, x \in S}

\* acq_time cells: "930", "09030", "2359", "9x30", "1234567"
Times ==
    {<<"9", "3", "0">>, <<"0", "9", "0", "3", "0">>, <<"2", "3", "5", "9">>,
     <<"9", "x", "3", "0">>, <<"1", "2", "3", "4", "5", "6", "7">>}

ConfCells ==
    {IntCell(50), IntCell(70), IntCell(85),
     StrCell("low"), StrCell("nominal"), StrCell("high"), NaN}

\* the last day a feed can report, and the days before it that it covers
LastDay == 2

Days == 1..LastDay

(***************************************************************************)
(* Specification SpecUrl: create_firms_csv_urls on every credential of     *)
(* Credentials.                                                            *)
(***************************************************************************)
Pending == [ok |-> FALSE, type |-> "pending"]

NoTable == Frame({}, <<>>)

UrlIdle == firms_key = <<>> /\ url_result = Pending

NormIdle == csv_content = NoTable /\ df_result = Pending

NoGdf == GeoDataFrame(NoCrs, <<>>)

GeoIdle ==
    /\ firms_world_gdf = NoGdf
    /\ country_gdf = NoGdf
    /\ filtered_gdf = Pending

FixedFeeds ==
    <<Frame(ModisColumns, <<Row(LastDay, <<"9", "3", "0">>, IntCell(85), 1)>>),
      Frame(ViirsColumns, <<Row(LastDay, <<"9", "3", "0">>, StrCell("high"), 2)>>),
      Frame(ViirsColumns, <<Row(1, <<"2", "3", "5", "9">>, StrCell("low"), 3)>>)>>

CombIdle ==
    /\ remote = FixedFeeds
    /\ cache = <<>>
    /\ pc = [t \in 1..1 |-> Idle(-1, Pending, "none", 0)]
    /\ stats = <<>>
    /\ done = {}
    /\ since = <<>>
    /\ nextKey = 0

InitUrl ==
    /\ firms_key \in Credentials
    /\ url_result = Pending
    /\ NormIdle /\ CombIdle /\ GeoIdle
    /\ today = LastDay /\ pandas_2x = TRUE

CreateFirmsCsvUrls ==
    /\ url_result = Pending
    /\ url_result' = create_firms_csv_urls(firms_key)
    /\ UNCHANGED <<firms_key, normVars, envVars, combVars, geoVars>>

NextUrl == CreateFirmsCsvUrls

SpecUrl == InitUrl /\ [][NextUrl]_vars

(***************************************************************************)
(* Specification SpecNorm: process_csv_data on every table of at most      *)
(* MaxRows rows, run on the last day of the feed or on the day after.      *)
(***************************************************************************)
MaxRows == 3

\* rows that differ from Row(LastDay, "930", 85) in the date, in the time or in
\* the confidence; a table mixes them freely
NormRows ==
    { Row(d, <<"9", "3", "0">>, IntCell(85), 1) : d \in Days }
    \cup { Row(LastDay, t, IntCell(85), 1) : t \in Times }
    \cup { Row(LastDay, <<"9", "3", "0">>, c, 1) : c \in ConfCells }

NormTables ==
    { Frame(ModisColumns, rows) : rows \in SeqsUpTo(NormRows, MaxRows) \ {<<>>} }
    \cup { Frame(ModisColumns \ {"confidence"}, <<Row(1, <<"9", "3", "0">>, NaN, 1)>>) }

InitNorm ==
    /\ csv_content \in NormTables
    /\ today \in {LastDay, LastDay + 1}
    /\ pandas_2x \in BOOLEAN
    /\ df_result = Pending
    /\ UrlIdle /\ CombIdle /\ GeoIdle

ProcessCsvData ==
    /\ df_result = Pending
    /\ df_result' = process_csv_data(csv_content, today, pandas_2x)
    /\ UNCHANGED <<csv_content, urlVars, envVars, combVars, geoVars>>

NextNorm == ProcessCsvData

SpecNorm == InitNorm /\ [][NextNorm]_vars

(***************************************************************************)
(* Specification Spec: NumCallers threads call the combiner with the keys  *)
(* 0..MaxKey or with a tuple of two URLs, MaxCalls calls in all; every     *)
(* request can be answered or fail.                                        *)
(***************************************************************************)
NumCallers == 2

MaxKey == 0

MaxCalls == 2

ConcKeys == 0..MaxKey

RECURSIVE SumCalls(_)
SumCalls(K) ==
    IF K = {} THEN 0
    ELSE LET k == CHOOSE x \in K : TRUE
         IN  stats[k].calls + SumCalls(K \ {k})

TotalCalls == SumCalls(DOMAIN stats)

NoStats == [calls |-> 0, fetches |-> <<0, 0, 0>>, overlap |-> FALSE]

Init ==
    /\ UrlIdle /\ NormIdle /\ GeoIdle
    /\ today = LastDay /\ pandas_2x = TRUE
    /\ remote = FixedFeeds
    /\ cache = <<>>
    /\ pc = [t \in 1..NumCallers |-> Idle(-1, Pending, "none", 0)]
    /\ stats = [k \in ConcKeys |-> NoStats]
    /\ done = {}
    /\ since = [k \in ConcKeys |-> {}]
    /\ nextKey = 0

Next ==
    \/ \E t \in DOMAIN pc, k \in ConcKeys \cup {-1} : TotalCalls < MaxCalls /\ Call(t, k)
    \/ \E t \in DOMAIN pc : ReadFirmCsv(t)
    \/ \E t \in DOMAIN pc, e \in TransportFailures : ReadFirmCsvFails(t, e)
    \/ \E t \in DOMAIN pc : Combine(t)

Spec == Init /\ [][Next]_vars

(***************************************************************************)
(* Specification SpecCombine: one caller, one key, a server that always    *)
(* answers, with every triple of tables of at most MaxTotalRows rows in    *)
(* all.                                                                    *)
(***************************************************************************)
MaxTotalRows == 2

\* rows of a feed: two times, a confidence above and one below the bar, and
\* two values of a column outside the key of drop_duplicates
FeedRows(confs) ==
    { Row(LastDay, t, c, f) :
        t \in {<<"9", "3", "0">>, <<"2", "3", "5", "9">>}, c \in confs, f \in 1..2 }

ModisRows == FeedRows({IntCell(85), IntCell(50)})

ViirsRows == FeedRows({StrCell("high"), StrCell("low")})

FeedTriples ==
    UNION { { <<Frame(ModisColumns, a), Frame(ViirsColumns, b), Frame(ViirsColumns, c)>> :
                a \in [1..n[1] -> ModisRows],
                b \in [1..n[2] -> ViirsRows],
                c \in [1..n[3] -> ViirsRows] } :
            n \in { m \in (0..MaxTotalRows) \X (0..MaxTotalRows) \X (0..MaxTotalRows) :
                      m[1] + m[2] + m[3] <= MaxTotalRows } }

InitCombine ==
    /\ UrlIdle /\ NormIdle /\ GeoIdle
    /\ today = LastDay /\ pandas_2x = TRUE
    /\ remote \in FeedTriples
    /\ cache = <<>>
    /\ pc = [t \in 1..1 |-> Idle(-1, Pending, "none", 0)]
    /\ stats = [k \in {0} |-> NoStats]
    /\ done = {}
    /\ since = [k \in {0} |-> {}]
    /\ nextKey = 0

NextCombine ==
    \/ TotalCalls < MaxCalls /\ Call(1, 0)
    \/ ReadFirmCsv(1)
    \/ Combine(1)

SpecCombine == InitCombine /\ [][NextCombine]_vars

(***************************************************************************)
(* Specification SpecLru: one caller works through maxsize + Beyond        *)
(* distinct keys, numbered in the order they first get a result, and       *)
(* comes back to key ProbeKey at any time.                                 *)
(***************************************************************************)
Beyond == 2

ProbeKey == 0

InitLru ==
    /\ UrlIdle /\ NormIdle /\ GeoIdle
    /\ today = LastDay /\ pandas_2x = TRUE
    /\ remote = FixedFeeds
    /\ cache = <<>>
    /\ pc = [t \in 1..1 |-> Idle(-1, Pending, "none", 0)]
    /\ stats = <<>>
    /\ done = {}
    /\ since = [k \in {ProbeKey} |-> {}]
    /\ nextKey = 0

NextLru ==
    \/ \E k \in {nextKey, ProbeKey} :
           /\ k <= nextKey
           /\ k < maxsize + Beyond
           /\ Call(1, k)
    \/ ReadFirmCsv(1)
    \/ ReadFirmCsvFails(1, HTTPError(403))
    \/ Combine(1)

SpecLru == InitLru /\ [][NextLru]_vars

(***************************************************************************)
(* Specification SpecFail: two callers with one key, a server whose        *)
(* requests can fail, and feeds of which one may hold a table that         *)
(* process_csv_data rejects.                                               *)
(***************************************************************************)
\* a table with an acq_time that does not parse, and one without acq_time
BadTables ==
    { Frame(ViirsColumns, <<Row(LastDay, <<"9", "x", "3", "0">>, StrCell("high"), 4)>>),
      Frame(ViirsColumns \ {"acq_time"},
            <<Row(LastDay, <<"9", "3", "0">>, StrCell("high"), 4)>>) }

FailFeeds ==
    {FixedFeeds} \cup
    { [FixedFeeds EXCEPT ![i] = bad] : i \in 1..3, bad \in BadTables }

InitFail ==
    /\ UrlIdle /\ NormIdle /\ GeoIdle
    /\ today = LastDay /\ pandas_2x = TRUE
    /\ remote \in FailFeeds
    /\ cache = <<>>
    /\ pc = [t \in 1..2 |-> Idle(-1, Pending, "none", 0)]
    /\ stats = [k \in {0} |-> NoStats]
    /\ done = {}
    /\ since = [k \in {0} |-> {}]
    /\ nextKey = 0

NextFail ==
    \/ \E t \in DOMAIN pc : TotalCalls < MaxCalls + 1 /\ Call(t, 0)
    \/ \E t \in DOMAIN pc : ReadFirmCsv(t)
    \/ \E t \in DOMAIN pc, e \in TransportFailures : ReadFirmCsvFails(t, e)
    \/ \E t \in DOMAIN pc : Combine(t)

SpecFail == InitFail /\ [][NextFail]_vars

(***************************************************************************)
(* Specification SpecGeo: the geospatial filter on every points frame of   *)
(* at most MaxPoints rows and every boundary frame of at most MaxPolygons  *)
(* rows, each with or without a crs.                                       *)
(***************************************************************************)
MaxPoints == 2

MaxPolygons == 2

\* two detections at one place, and three more places
PointRows ==
    { [geometry |-> <<1, 1>>, frp |-> 1], [geometry |-> <<1, 1>>, frp |-> 2],
      [geometry |-> <<2, 1>>, frp |-> 1], [geometry |-> <<3, 3>>, frp |-> 1],
      [geometry |-> <<5, 5>>, frp |-> 1] }

Polygon(minx, miny, maxx, maxy) ==
    [geometry |-> [minx |-> minx, miny |-> miny, maxx |-> maxx, maxy |-> maxy],
     display_name |-> "country"]

PolygonRows == {Polygon(0, 0, 2, 2), Polygon(2, 2, 4, 4), Polygon(1, 1, 7, 7)}

FirmsGdfs ==
    { GeoDataFrame(crs, rows) :
        crs \in {"EPSG:4326", NoCrs}, rows \in SeqsUpTo(PointRows, MaxPoints) }

CountryGdfs ==
    { GeoDataFrame(crs, rows) :
        crs \in {"EPSG:4326", "EPSG:3857", NoCrs},
        rows \in SeqsUpTo(PolygonRows, MaxPolygons) }

InitGeo ==
    /\ UrlIdle /\ NormIdle /\ CombIdle
    /\ today = LastDay /\ pandas_2x = TRUE
    /\ firms_world_gdf \in FirmsGdfs
    /\ country_gdf \in CountryGdfs
    /\ filtered_gdf = Pending

FilterFirmsPoints ==
    /\ filtered_gdf = Pending
    /\ filtered_gdf' =
           filter_firms_points_within_country_area(firms_world_gdf, country_gdf)
    /\ UNCHANGED <<firms_world_gdf, country_gdf, urlVars, normVars, envVars, combVars>>

NextGeo == FilterFirmsPoints

SpecGeo == InitGeo /\ [][NextGeo]_vars

(***************************************************************************)
(* Claims on the Feed URL Builder (SpecUrl).                               *)
(***************************************************************************)
UpperHex == {"A", "B", "C", "D", "E", "F"}

ValidCredential(key) ==
    Len(key) = 32 /\ \A i \in DOMAIN key : key[i] \in HexDigits \cup UpperHex

\* C4: a 32-character hexadecimal credential yields exactly three URLs
\* {base}/api/area/csv/{credential}/{PRODUCT}/world/9 for three distinct
\* products; every other string is rejected with the invalid-credential error
\* and yields no URL.
C4_UrlBuilder ==
    url_result # Pending =>
        IF ValidCredential(firms_key)
        THEN /\ url_result.ok
             /\ Len(url_result.value) = 3
             /\ \A i \in 1..3 :
                    url_result.value[i] =
                        <<FIRMS_API_URL, "/api/area/csv/">> \o firms_key
                            \o <<"/", Products[i], "/world/9">>
             /\ \A i, j \in 1..3 : i # j => Products[i] # Products[j]
        ELSE /\ ~url_result.ok
             /\ url_result.type = "ValueError"

\* a valid credential with an upper-case digit was given and the URLs built
C4_Witness ==
    /\ url_result # Pending
    /\ url_result.ok
    /\ \E i \in DOMAIN firms_key : firms_key[i] = "F"

\* C12 as stated: a credential is accepted only if it is exactly 32 lower-case
\* hexadecimal characters; a 32-character hexadecimal string with an
\* upper-case letter A-F is rejected.
C12_LowercaseOnly ==
    (url_result # Pending /\ url_result.ok) =>
        /\ Len(firms_key) = 32
        /\ \A i \in DOMAIN firms_key : firms_key[i] \in HexDigits

\* C12 amended: a credential is accepted only if it is exactly 32 hexadecimal
\* characters, the letters a-f in either case; every other string is rejected
\* with no URL produced, and an upper-case letter does not cause rejection.
C12_CaseInsensitiveHex ==
    url_result # Pending =>
        /\ url_result.ok =>
              /\ Len(firms_key) = 32
              /\ \A i \in DOMAIN firms_key :
                     firms_key[i] \in HexDigits \/ firms_key[i] \in UpperHex
        /\ ~url_result.ok => "value" \notin DOMAIN url_result
        /\ (/\ Len(firms_key) = 32
            /\ \A i \in DOMAIN firms_key : Lower(firms_key)[i] \in HexDigits)
              => url_result.ok

\* a 32-character credential ending in an upper-case F was accepted
C12_Witness ==
    /\ url_result # Pending
    /\ Len(firms_key) = KeyLen
    /\ firms_key[KeyLen] = "F"
    /\ url_result.ok

(***************************************************************************)
(* Claims on the Record Normalizer (SpecNorm).                             *)
(***************************************************************************)
\* the most recent day of the batch
MostRecentDay(rows) ==
    CHOOSE d \in {rows[i].acq_date.v : i \in DOMAIN rows} :
        \A i \in DOMAIN rows : rows[i].acq_date.v <= d

\* number of distinct days of the batch later than or equal to d
DenseRank(rows, d) ==
    Cardinality({ e \in {rows[i].acq_date.v : i \in DOMAIN rows} : e >= d })

\* C5: days_ago is the dense descending rank of the row's date, minus 1 when
\* the most recent date of the batch is today (so a row of today's date, the
\* most recent, has days_ago 0).
C5_RecencyRank ==
    (df_result # Pending /\ df_result.ok) =>
        LET rows == csv_content.rows
        IN  \A i \in DOMAIN rows :
                df_result.value.rows[i].days_ago =
                    IF MostRecentDay(rows) = today
                    THEN DenseRank(rows, rows[i].acq_date.v) - 1
                    ELSE DenseRank(rows, rows[i].acq_date.v)

\* acq_time is one to four decimal digits
IsHHMM(t) == Len(t) \in 1..4 /\ \A i \in DOMAIN t : t[i] \in Digits

\* the value of an HHMM string left-padded to four digits
HHMM(t) ==
    LET p == Repeat("0", 4 - Len(t)) \o t
    IN  [hour   |-> 10 * DigitVal(p[1]) + DigitVal(p[2]),
         minute |-> 10 * DigitVal(p[3]) + DigitVal(p[4])]

\* C6: a row whose acq_time is a 1-to-4-digit HHMM value gets the timestamp
\* acq_date HH:MM:00 of the zero-padded value ("930" gives 09:30:00).
C6_AcquisitionTimestamp ==
    (df_result # Pending /\ df_result.ok) =>
        LET rows == csv_content.rows
        IN  \A i \in DOMAIN rows :
                IsHHMM(rows[i].acq_time) =>
                    df_result.value.rows[i].acq_datetime =
                        [date   |-> rows[i].acq_date.v,
                         hour   |-> HHMM(rows[i].acq_time).hour,
                         minute |-> HHMM(rows[i].acq_time).minute,
                         second |-> 0]

\* C7: when the acquisition datetime of any row fails to parse the whole
\* batch fails; a batch that is returned has every row of the input, each
\* with a non-null acquisition datetime.
C7_FailFast ==
    df_result # Pending =>
        LET rows == csv_content.rows
        IN  /\ (\E i \in DOMAIN rows : AcqDatetime(rows[i]) = NaT) => ~df_result.ok
            /\ df_result.ok =>
                   /\ Len(df_result.value.rows) = Len(rows)
                   /\ \A i \in DOMAIN rows : df_result.value.rows[i].acq_datetime # NaT

\* a batch with a row that parses and a row that does not was rejected
C7_Witness ==
    /\ df_result # Pending
    /\ ~df_result.ok
    /\ RequiredCsvColumns \subseteq csv_content.columns
    /\ \E i, j \in DOMAIN csv_content.rows :
           /\ AcqDatetime(csv_content.rows[i]) = NaT
           /\ AcqDatetime(csv_content.rows[j]) # NaT

\* C10: in a feed whose confidence column is numeric a row is high-confidence
\* exactly when its confidence is at least 70; in a feed whose column is
\* textual, exactly when it is "nominal" or "high"; in a feed whose column
\* pandas reports as neither, no row is, and the batch does not fail for it.
C10_ConfidenceClassification ==
    (df_result # Pending /\ RequiredCsvColumns \subseteq csv_content.columns) =>
        LET rows == csv_content.rows
            numeric == \A i \in DOMAIN rows : rows[i].confidence.k \in {"int", "nan"}
            textual == ~numeric /\ (pandas_2x => \A i \in DOMAIN rows :
                                                     rows[i].confidence.k # "nan")
            parses == \A i \in DOMAIN rows : AcqDatetime(rows[i]) # NaT
        IN  /\ parses <=> df_result.ok
            /\ df_result.ok =>
                 \A i \in DOMAIN rows :
                     LET c == rows[i].confidence
                         high == df_result.value.rows[i].high_confidence
                     IN  /\ numeric => (high <=> (c.k = "int" /\ c.v >= 70))
                         /\ textual => (high <=> (c.k = "str" /\ c.v \in {"nominal", "high"}))
                         /\ (~numeric /\ ~textual) => ~high

\* under pandas 2.x a feed with the cells "high" and empty, a column that is
\* neither numeric nor textual, was normalized and no row is high-confidence
C10_Witness ==
    /\ df_result # Pending
    /\ df_result.ok
    /\ pandas_2x
    /\ LET rows == csv_content.rows
           out == df_result.value.rows
       IN  /\ \E i \in DOMAIN rows : rows[i].confidence = StrCell("high")
           /\ \E i \in DOMAIN rows : rows[i].confidence = NaN
           /\ \A i \in DOMAIN rows : ~out[i].high_confidence

(***************************************************************************)
(* Claims on the memoized Feed Combiner (Spec, SpecLru).                   *)
(***************************************************************************)
\* C1 as stated: calls with the same key that follow one another send at
\* most one request per URL of the key in total.
C1_OneFetchPerUrl ==
    \A k \in DOMAIN stats :
        ~stats[k].overlap => \A i \in 1..3 : stats[k].fetches[i] <= 1

\* the step is a call with key k by a caller that was idle
CallStep(k) == stats'[k].calls = stats[k].calls + 1

\* C1, amended: once a call with key k has returned a result, and while fewer
\* than maxsize other keys have been stored or hit since that entry was, a
\* call with k returns the stored result at once: it sends no request and
\* normalizes nothing.  (A call that raised stored nothing; the next call
\* with its key fetches again.)
C1_SecondCallIsAHit ==
    [][ \A d \in done :
          (Cardinality(since[d.key]) < maxsize /\ CallStep(d.key)) =>
              /\ stats'[d.key].fetches = stats[d.key].fetches
              /\ \E t \in DOMAIN pc :
                     /\ pc[t].at = "idle"
                     /\ pc'[t] = Idle(d.key, Returned(d.value), "none", 0)
                     /\ \A u \in DOMAIN pc \ {t} : pc'[u] = pc[u] ]_vars

\* a first call fetched the three URLs and returned; a second call with the
\* same key returned without a request
C1_Witness ==
    \E t \in DOMAIN pc, k \in DOMAIN stats :
        /\ pc[t] = Idle(k, pc[t].out, "none", 0)
        /\ pc[t].out.ok
        /\ stats[k].calls = 2
        /\ stats[k].fetches = <<1, 1, 1>>

\* C2 as stated: a result once returned for a key stays in the cache
\* whatever calls with other keys follow.
C2_NeverExpires == \A d \in done : d.key \in CacheKeys

\* C2, amended: the entry of a key stays in the cache, holding the result
\* that was returned, exactly as long as fewer than maxsize (128) other
\* distinct keys have been stored or hit since it was last stored or hit; the
\* 128th evicts it, and the next call with the key fetches again.
C2_RetainedWhileRecent ==
    \A d \in done :
        IF Cardinality(since[d.key]) < maxsize
        THEN \E i \in DOMAIN cache : cache[i] = [key |-> d.key, value |-> d.value]
        ELSE d.key \notin CacheKeys

\* the cache is full, entries have been evicted, and the entry of ProbeKey,
\* which was hit again in time, is still there
C2_Witness ==
    /\ Len(cache) = maxsize
    /\ nextKey > maxsize + 1
    /\ \E d \in done : d.key = ProbeKey /\ ProbeKey \in CacheKeys

\* the last call of caller t ended with an exception
Failed(t) == ~pc[t].out.ok /\ pc[t].out.type # "pending"

\* C13: a combiner call that fails at its i-th URL, in the request or in the
\* normalization, ends there with the error: it has sent requests to URLs
\* 1..i and to none after it (a caller is at URL i only with a frame of every
\* URL before it), and it leaves the cache as it was.  Every cache entry is a
\* result some call returned, never a failure.  After a failed call, a call
\* with the same key that finds no entry starts again at the first URL.
C13_FailedCombine ==
    [][ \A t \in DOMAIN pc :
          LET k == pc[t].key
              i == pc[t].i
          IN  /\ (pc[t].at = "read" /\ pc'[t].at = "idle") =>
                    /\ ~pc'[t].out.ok
                    /\ pc'[t].out.type = "ValueError"
                    /\ pc'[t].fetched = i
                    /\ cache' = cache
                    /\ k \in DOMAIN stats =>
                          \A j \in (i + 1)..3 :
                              stats'[k].fetches[j] = stats[k].fetches[j]
              /\ pc'[t].at = "read" =>
                    /\ Len(pc'[t].dfs) = pc'[t].i - 1
                    /\ pc'[t].fetched = pc'[t].i - 1
              /\ \A n \in DOMAIN cache' :
                    [key |-> cache'[n].key, value |-> cache'[n].value] \in done'
              /\ (/\ pc[t].at = "idle" /\ Failed(t)
                  /\ k \in DOMAIN stats /\ k \notin CacheKeys
                  /\ CallStep(k)) =>
                    \E u \in DOMAIN pc :
                        /\ pc[u].at = "idle"
                        /\ pc'[u].at = "read"
                        /\ pc'[u].key = k
                        /\ pc'[u].i = 1
                        /\ pc'[u].fetched = 0
                        /\ pc'[u].dfs = <<>> ]_vars

\* the second feed does not normalize: a call failed at the second URL, the
\* next call with the key fetched the first URL again and failed at the
\* second too; the third URL was never requested and nothing is cached
C13_Witness ==
    /\ remote[2] \in BadTables
    /\ \E t \in DOMAIN pc : pc[t].at = "idle" /\ Failed(t) /\ pc[t].fetched = 2
    /\ 0 \in DOMAIN stats
    /\ stats[0].calls = 2
    /\ ~stats[0].overlap
    /\ stats[0].fetches = <<2, 2, 0>>
    /\ cache = <<>>

\* C3: callers that miss on the same key at the same time do not both fetch:
\* of two callers inside the body with one key, at most one has sent requests.
C3_SingleComputation ==
    \A t, u \in DOMAIN pc :
        (t # u /\ pc[t].at # "idle" /\ pc[u].at # "idle" /\ pc[t].key = pc[u].key)
            => (pc[t].fetched = 0 \/ pc[u].fetched = 0)

\* C8: when a request is refused with status 403 the caller selects the
\* rate-limit message, not the generic one.
C8_RateLimitDistinguished ==
    \A t \in DOMAIN pc :
        (/\ pc[t].at = "idle"
         /\ pc[t].out # Pending
         /\ ~pc[t].out.ok
         /\ RootCause(pc[t].out) = HTTPError(403))
            => pc[t].ui = "rate_limit"

(***************************************************************************)
(* Claim on the geospatial filter (SpecGeo).                               *)
(***************************************************************************)
\* the place of a point of the points frame in the crs of the boundary frame
Place(point) == Transform(point, firms_world_gdf.crs, country_gdf.crs)

\* the point lies inside the polygon: in it and not on its edge
Inside(point, polygon) ==
    /\ point[1] > polygon.minx /\ point[1] < polygon.maxx
    /\ point[2] > polygon.miny /\ point[2] < polygon.maxy

\* the positions of the points that are inside at least one polygon
InsideSome ==
    { i \in DOMAIN firms_world_gdf.rows :
        \E j \in DOMAIN country_gdf.rows :
            Inside(Place(firms_world_gdf.rows[i].geometry),
                   country_gdf.rows[j].geometry) }

\* C11: for non-empty inputs that are in one crs, or each in a crs of its
\* own, the filter returns exactly the points that are inside at least one
\* polygon of the boundary set: each of them once, in their original order,
\* with their attributes unchanged and at their place; a point outside every
\* polygon, or on the edge of those it touches, is not returned.
C11_GeospatialFilter ==
    LET points == firms_world_gdf.rows
        out == filtered_gdf.value.rows
    IN  (/\ filtered_gdf # Pending
         /\ points # <<>> /\ country_gdf.rows # <<>>
         /\ \/ firms_world_gdf.crs = country_gdf.crs
            \/ firms_world_gdf.crs # NoCrs /\ country_gdf.crs # NoCrs) =>
            /\ filtered_gdf.ok
            /\ Len(out) = Cardinality(InsideSome)
            /\ \E f \in [DOMAIN out -> InsideSome] :
                   /\ \A m, n \in DOMAIN out : m < n => f[m] < f[n]
                   /\ \A n \in DOMAIN out :
                          /\ out[n].frp = points[f[n]].frp
                          /\ out[n].geometry = Place(points[f[n]].geometry)
                          /\ DOMAIN out[n] = DOMAIN points[f[n]]

\* of two points the first, outside every polygon, was dropped and the
\* second, inside the second polygon only, was returned
C11_Witness ==
    /\ filtered_gdf # Pending
    /\ filtered_gdf.ok
    /\ Len(firms_world_gdf.rows) = 2
    /\ Len(country_gdf.rows) = 2
    /\ 1 \notin InsideSome
    /\ ~Inside(Place(firms_world_gdf.rows[2].geometry), country_gdf.rows[1].geometry)
    /\ Inside(Place(firms_world_gdf.rows[2].geometry), country_gdf.rows[2].geometry)
    /\ filtered_gdf.value.rows = <<firms_world_gdf.rows[2]>>

(***************************************************************************)
(* Claim on the combination (SpecCombine).                                 *)
(***************************************************************************)
\* the high-confidence rows of the three feeds in the order of concatenation
HighInputs ==
    LET df(i) == process_csv_data(remote[i], today, pandas_2x).value.rows
    IN  SelectSeq(df(1) \o df(2) \o df(3), LAMBDA r : r.high_confidence)

KeyOfInput(r) ==
    <<r.latitude, r.longitude, Strftime(r.acq_datetime), r.confidence, r.version>>

KeyOfRecord(g) == <<g.latitude, g.longitude, g.acq_datetime, g.confidence, g.version>>

\* C9: no two records of the combined dataset agree on (latitude, longitude,
\* acquisition_datetime, confidence, version); the high-confidence records of
\* the feeds that share a key collapse to one record, which has the other
\* fields of the last of them in the order of concatenation.
C9_Deduplication ==
    (pc[1].at = "idle" /\ pc[1].out # Pending /\ pc[1].out.ok) =>
        LET gdf == pc[1].out.value
            in == HighInputs
        IN  /\ \A i, j \in DOMAIN gdf :
                   KeyOfRecord(gdf[i]) = KeyOfRecord(gdf[j]) => i = j
            /\ \A n \in DOMAIN in :
                   LET last == CHOOSE m \in DOMAIN in :
                                   /\ KeyOfInput(in[m]) = KeyOfInput(in[n])
                                   /\ \A l \in DOMAIN in :
                                          KeyOfInput(in[l]) = KeyOfInput(in[n]) => l <= m
                   IN  \E i \in DOMAIN gdf :
                           /\ KeyOfRecord(gdf[i]) = KeyOfInput(in[n])
                           /\ gdf[i].frp = in[last].frp
                           /\ gdf[i].satellite = in[last].satellite
                           /\ gdf[i].days_ago = in[last].days_ago
            /\ \A i \in DOMAIN gdf :
                   \E n \in DOMAIN in : KeyOfRecord(gdf[i]) = KeyOfInput(in[n])

\* two high-confidence rows of different feeds collided and one record, with
\* the other fields of the later row, is in the combined dataset
C9_Witness ==
    /\ pc[1].at = "idle" /\ pc[1].out # Pending /\ pc[1].out.ok
    /\ Len(HighInputs) = 2
    /\ KeyOfInput(HighInputs[1]) = KeyOfInput(HighInputs[2])
    /\ HighInputs[1].frp # HighInputs[2].frp
    /\ Len(remote[2].rows) = 1 /\ Len(remote[3].rows) = 1
    /\ Len(pc[1].out.value) = 1
    /\ pc[1].out.value[1].frp = HighInputs[2].frp

====
